---- MODULE Spec2Model ----
(***************************************************************************)
(* State-machine model of QHalRemoteComponent                              *)
(* (src/src/halremote/qhalremotecomponent.cpp): the connection life cycle, *)
(* the two heartbeat timers, the pin registry and the handlers of the      *)
(* command (halrcmd) and update (halrcomp) sockets.                        *)
(*                                                                         *)
(* Every handler is one action.  A handler is written as an operator on a  *)
(* record s holding the member variables, so that the calls it makes       *)
(* (updateState, updateError, unsyncPins, ...) compose as in the source.   *)
(***************************************************************************)
EXTENDS Integers, Sequences, FiniteSets, TLC

\* ------------------------------------------------------------------ bounds
MaxLate   == 1      \* callbacks still queued when a subscription or socket ends

\* ------------------------------------------------------- the pin container
\* The container of scenario S1, x:Float:Out and y:Bit:In, plus a disabled
\* pin z and a pin u whose name is empty.
CompName   == "comp"
Pins       == {"x", "y", "z", "u"}
PinName    == [x |-> "x", y |-> "y", z |-> "z", u |-> ""]
PinType    == [x |-> "Float", y |-> "Bit", z |-> "S32", u |-> "U32"]
PinDir     == [x |-> "Out", y |-> "In", z |-> "IO", u |-> "Out"]
PinEnabled == [x |-> TRUE, y |-> TRUE, z |-> FALSE, u |-> TRUE]
NoHandle   == 0
NoPin      == "NULL"

\* the value field of a pin sub-message that goes with a pin type
FieldOf(type) ==
    CASE type = "Float" -> "halfloat"
      [] type = "Bit"   -> "halbit"
      [] type = "S32"   -> "hals32"
      [] type = "U32"   -> "halu32"

\* values a local write stores: a QVariant of the pin's own type; the user
\* interface of this specification switches a pin on
LocalValues(p) == { [field |-> FieldOf(PinType[p]), v |-> 1] }

DefaultHeartbeatPeriod == 3000
HeartbeatPeriods == {0, DefaultHeartbeatPeriod}

\* ------------------------------------------------------------------ state
VARIABLES
    m_ready, m_componentCompleted, m_heartbeatPeriod,
    m_connectionState, m_error, m_errorString,
    m_sState, m_cState,
    cmdTimerActive, compTimerActive,
    m_halrcmdPingOutstanding, m_halrcompPingOutstanding,
    sockets,        \* "null": pointers NULL; "open": created, connect failed;
                    \* "live": connected and messageReceived wired
    subscribed,     \* the update socket holds a subscription to the topic
    m_pinsByName,   \* set of registered pin names
    m_pinsByHandle, \* handle -> pin name or NoPin
    m_tx,           \* the outgoing container message, reused by every sender
    pinValue, pinSynced, pinHandle,   \* the pins of the container
    pending,        \* requests sent whose reply has not been delivered
    lateSub,        \* update callbacks queued when the update socket closed
    bindRejected,   \* the BIND of the running session was answered BIND_REJECT
    crashed,        \* a null pointer was dereferenced
    last            \* the handler that ran last and the envelopes it sent

vars == << m_ready, m_componentCompleted, m_heartbeatPeriod,
           m_connectionState, m_error, m_errorString, m_sState, m_cState,
           cmdTimerActive, compTimerActive,
           m_halrcmdPingOutstanding, m_halrcompPingOutstanding,
           sockets, subscribed, m_pinsByName, m_pinsByHandle, m_tx,
           pinValue, pinSynced, pinHandle, pending, lateSub, bindRejected,
           crashed, last >>

\* the handles the server assigns
Handles == {1, 2, 3}

\* pb::Container as the senders use it: the type and the repeated fields
\* comp and pin; a default-constructed or cleared message is empty
EmptyTx == [type |-> "NONE", comp |-> <<>>, pin |-> <<>>]

\* variant: Clear() resets the type and keeps the repeated fields
ClearTxTypeOnly(s) == [s EXCEPT !.m_tx.type = "NONE"]

\* m_tx.Clear()
ClearTx(s) == [s EXCEPT !.m_tx = EmptyTx]

\* the member variables as one record, with the envelopes sent so far by
\* the running handler
Cur == [ m_ready |-> m_ready, m_componentCompleted |-> m_componentCompleted,
         m_heartbeatPeriod |-> m_heartbeatPeriod,
         m_connectionState |-> m_connectionState, m_error |-> m_error,
         m_errorString |-> m_errorString,
         m_sState |-> m_sState, m_cState |-> m_cState,
         cmdTimerActive |-> cmdTimerActive, compTimerActive |-> compTimerActive,
         m_halrcmdPingOutstanding |-> m_halrcmdPingOutstanding,
         m_halrcompPingOutstanding |-> m_halrcompPingOutstanding,
         sockets |-> sockets, subscribed |-> subscribed,
         m_pinsByName |-> m_pinsByName, m_pinsByHandle |-> m_pinsByHandle,
         m_tx |-> m_tx,
         pinValue |-> pinValue, pinSynced |-> pinSynced, pinHandle |-> pinHandle,
         pending |-> pending, lateSub |-> lateSub,
         bindRejected |-> bindRejected,
         crashed |-> crashed, sent |-> <<>> ]

\* the state after construction; heartbeatPeriod is the one property set
\* before the component is used
Constructed(period) ==
    [ m_ready |-> FALSE, m_componentCompleted |-> FALSE,
      m_heartbeatPeriod |-> period,
      m_connectionState |-> "Disconnected", m_error |-> "NoError",
      m_errorString |-> <<>>,
      m_sState |-> "Down", m_cState |-> "Down",
      cmdTimerActive |-> FALSE, compTimerActive |-> FALSE,
      m_halrcmdPingOutstanding |-> FALSE, m_halrcompPingOutstanding |-> FALSE,
      sockets |-> "null", subscribed |-> FALSE,
      m_pinsByName |-> {}, m_pinsByHandle |-> [h \in Handles |-> NoPin],
      m_tx |-> EmptyTx,
      pinValue |-> [p \in Pins |-> [field |-> FieldOf(PinType[p]), v |-> 0]],
      pinSynced |-> [p \in Pins |-> FALSE],
      pinHandle |-> [p \in Pins |-> NoHandle],
      pending |-> {}, lateSub |-> 0, bindRejected |-> FALSE,
      crashed |-> FALSE, sent |-> <<>> ]

\* A crash ends the process: nothing of its state is left to observe, and
\* the model keeps only the fact and the handler that crashed.
Crashed(s) == [Constructed(s.m_heartbeatPeriod) EXCEPT !.crashed = TRUE]

Outcome(s) == IF s.crashed THEN Crashed(s) ELSE s

Commit(s0, ev) ==
    \E s \in {Outcome(s0)} :
    /\ m_ready' = s.m_ready
    /\ m_componentCompleted' = s.m_componentCompleted
    /\ m_heartbeatPeriod' = s.m_heartbeatPeriod
    /\ m_connectionState' = s.m_connectionState
    /\ m_error' = s.m_error
    /\ m_errorString' = s.m_errorString
    /\ m_sState' = s.m_sState
    /\ m_cState' = s.m_cState
    /\ cmdTimerActive' = s.cmdTimerActive
    /\ compTimerActive' = s.compTimerActive
    /\ m_halrcmdPingOutstanding' = s.m_halrcmdPingOutstanding
    /\ m_halrcompPingOutstanding' = s.m_halrcompPingOutstanding
    /\ sockets' = s.sockets
    /\ subscribed' = s.subscribed
    /\ m_pinsByName' = s.m_pinsByName
    /\ m_pinsByHandle' = s.m_pinsByHandle
    /\ m_tx' = s.m_tx
    /\ pinValue' = s.pinValue
    /\ pinSynced' = s.pinSynced
    /\ pinHandle' = s.pinHandle
    /\ pending' = s.pending
    /\ lateSub' = s.lateSub
    /\ bindRejected' = s.bindRejected
    /\ crashed' = s.crashed
    /\ last' = [ev |-> ev, sent |-> s.sent]

Init ==
    \E period \in HeartbeatPeriods :
        LET s == Constructed(period) IN
        /\ m_ready = s.m_ready
        /\ m_componentCompleted = s.m_componentCompleted
        /\ m_heartbeatPeriod = s.m_heartbeatPeriod
        /\ m_connectionState = s.m_connectionState
        /\ m_error = s.m_error
        /\ m_errorString = s.m_errorString
        /\ m_sState = s.m_sState
        /\ m_cState = s.m_cState
        /\ cmdTimerActive = s.cmdTimerActive
        /\ compTimerActive = s.compTimerActive
        /\ m_halrcmdPingOutstanding = s.m_halrcmdPingOutstanding
        /\ m_halrcompPingOutstanding = s.m_halrcompPingOutstanding
        /\ sockets = s.sockets
        /\ subscribed = s.subscribed
        /\ m_pinsByName = s.m_pinsByName
        /\ m_pinsByHandle = s.m_pinsByHandle
        /\ m_tx = s.m_tx
        /\ pinValue = s.pinValue
        /\ pinSynced = s.pinSynced
        /\ pinHandle = s.pinHandle
        /\ pending = s.pending
        /\ lateSub = s.lateSub
        /\ bindRejected = s.bindRejected
        /\ crashed = s.crashed
        /\ last = [ev |-> "init", sent |-> <<>>]

\* ------------------------------------------------------------ QHalPin
\* QHalPin (qhalpin.cpp) is not part of the sources at hand; its three
\* setters are modelled from the pin description of the specification.
setValue(s, p, val, synced) ==
    [s EXCEPT !.pinValue[p] = val, !.pinSynced[p] = synced]

setSynced(s, p, synced) == [s EXCEPT !.pinSynced[p] = synced]

setHandle(s, p, h) == [s EXCEPT !.pinHandle[p] = h]

\* QVariant conversions used when a value is put on the wire
toDouble(val) == val.v
toBool(val)   == IF val.v = 0 THEN 0 ELSE 1
toInt(val)    == val.v
toUInt(val)   == val.v

\* the typed value field bind() and pinChange() fill in for pin p
WireValue(s, p) ==
    CASE PinType[p] = "Float" -> [field |-> "halfloat", v |-> toDouble(s.pinValue[p])]
      [] PinType[p] = "Bit"   -> [field |-> "halbit",   v |-> toBool(s.pinValue[p])]
      [] PinType[p] = "S32"   -> [field |-> "hals32",   v |-> toInt(s.pinValue[p])]
      [] PinType[p] = "U32"   -> [field |-> "halu32",   v |-> toUInt(s.pinValue[p])]

\* QString("%1.%2").arg(m_name).arg(pin->name())
FullName(p) == << CompName, PinName[p] >>
\* a name is the sequence of its parts between the dots; a name with a dot
\* loses what precedes the first one: name.mid(dotIndex + 1)
StripName(n) == IF Len(n) > 1 THEN n[2] ELSE n[1]

\* the pins of a set in the order QMap iterates them (by name)
PinOrder == << "u", "x", "y", "z" >>
InOrder(S) == LET In(p) == p \in S IN SelectSeq(PinOrder, In)

\* ------------------------------------------------- timers, state, error
\* variant: the timer is started whatever the period is
startHalrcmdHeartbeatAlways(s) ==
    [s EXCEPT !.m_halrcmdPingOutstanding = FALSE, !.cmdTimerActive = TRUE]

startHalrcmdHeartbeat(s) ==
    LET s1 == [s EXCEPT !.m_halrcmdPingOutstanding = FALSE]
    IN  IF s1.m_heartbeatPeriod > 0
        THEN [s1 EXCEPT !.cmdTimerActive = TRUE]
        ELSE s1

stopHalrcmdHeartbeat(s) == [s EXCEPT !.cmdTimerActive = FALSE]

startHalrcompHeartbeat(s, interval) ==
    LET s1 == [s EXCEPT !.compTimerActive = FALSE,
                        !.m_halrcompPingOutstanding = FALSE]
    IN  IF interval > 0
        THEN [s1 EXCEPT !.compTimerActive = TRUE]
        ELSE s1

stopHalrcompHeartbeat(s) == [s EXCEPT !.compTimerActive = FALSE]

\* stop() followed by start() of a running timer: it stays active
refreshHalrcompHeartbeat(s) ==
    IF s.compTimerActive
    THEN [s EXCEPT !.compTimerActive = TRUE]
    ELSE s

unsyncPins(s) ==
    [s EXCEPT !.pinSynced =
        [p \in Pins |-> IF p \in s.m_pinsByName THEN FALSE ELSE s.pinSynced[p]]]

updateState(s, state) ==
    IF state # s.m_connectionState
    THEN LET s1 == IF s.m_connectionState = "Connected" THEN unsyncPins(s) ELSE s
             s2 == [s1 EXCEPT !.m_connectionState = state]
         IN  IF s2.m_connectionState = "Connected"
             THEN startHalrcmdHeartbeat(s2)
             ELSE stopHalrcompHeartbeat(stopHalrcmdHeartbeat(s2))
    ELSE s

updateError(s, error, errorString) ==
    [s EXCEPT !.m_error = error, !.m_errorString = errorString]

\* QString("Error %1: ").arg(num) + what
SocketErrorString == << "Error %1: " >>

pollError(s) == updateState(updateError(s, "SocketError", SocketErrorString), "Error")

\* the notes of an envelope, each followed by a newline
RECURSIVE NoteString(_)
NoteString(notes) ==
    IF notes = <<>> THEN <<>>
    ELSE << Head(notes), "\n" >> \o NoteString(Tail(notes))

\* --------------------------------------------------------------- sockets
\* a member call through a null socket pointer
NullDeref(s) == [s EXCEPT !.crashed = TRUE]

\* ok = FALSE: the transport throws zmq::error_t
sendHalrcmdMessage(s, envelope, ok) ==
    IF s.sockets = "null" THEN NullDeref(s)
    ELSE IF ok THEN [s EXCEPT !.sent = Append(@, envelope),
                              !.pending = @ \cup {envelope.type}]
    ELSE updateState(updateError(s, "SocketError", SocketErrorString), "Error")

connectSockets(s, ok) ==
    IF ok THEN [s EXCEPT !.sockets = "live"]
    ELSE updateState(updateError([s EXCEPT !.sockets = "open"],
                                 "SocketError", SocketErrorString), "Error")

\* closing the update socket ends its subscription; ls is the number of
\* update callbacks the poller had already queued
disconnectSockets(s, ls) ==
    [s EXCEPT !.sockets = "null", !.subscribed = FALSE, !.pending = {},
              !.bindRejected = FALSE,
              !.lateSub = IF s.subscribed THEN ls ELSE @]

subscribe(s) ==
    LET s1 == [s EXCEPT !.m_sState = "Trying"]
    IN  IF s1.sockets = "null" THEN NullDeref(s1)
        ELSE [s1 EXCEPT !.subscribed = TRUE, !.lateSub = 0]

unsubscribe(s) ==
    LET s1 == [s EXCEPT !.m_sState = "Down"]
    IN  IF s1.sockets = "null" THEN NullDeref(s1)
        ELSE [s1 EXCEPT !.subscribed = FALSE]

\* ------------------------------------------------------------- registry
\* pins with an empty name and disabled pins are skipped
addPins(s) ==
    [s EXCEPT !.m_pinsByName =
        @ \cup { p \in Pins : ~(PinName[p] = "" \/ PinEnabled[p] = FALSE) }]

\* variant: the handle index is left as it is
removePinsByNameOnly(s) == [s EXCEPT !.m_pinsByName = {}]

removePins(s) ==
    [s EXCEPT !.m_pinsByHandle = [h \in Handles |-> NoPin],
              !.m_pinsByName = {}]

\* ------------------------------------------------------------- envelopes
BindPin(s, p) ==
    [name |-> FullName(p), type |-> PinType[p], dir |-> PinDir[p],
     value |-> WireValue(s, p)]

\* m_tx as bind() fills it: set_type, add_comp, one add_pin per registered pin
BindTx(s) ==
    [s.m_tx EXCEPT
       !.type = "BIND",
       !.comp = Append(@, [name |-> CompName,
                           pin |-> [i \in 1..Len(InOrder(s.m_pinsByName)) |->
                                      BindPin(s, InOrder(s.m_pinsByName)[i])]])]

BindEnvelope(s) == BindTx(s)

bind(s, ok) ==
    LET s1 == [s EXCEPT !.m_tx = BindTx(s)]
    IN  ClearTx(sendHalrcmdMessage(s1, s1.m_tx, ok))

\* m_tx as pinChange() fills it: set_type, one add_pin
SetTx(s, p) ==
    [s.m_tx EXCEPT
       !.type = "SET",
       !.pin = Append(@, [handle |-> s.pinHandle[p], name |-> FullName(p),
                          type |-> PinType[p], value |-> WireValue(s, p)])]

SetEnvelope(s, p) == SetTx(s, p)

\* m_tx as the tick handlers fill it: set_type
PingTx(s) == [s.m_tx EXCEPT !.type = "PING"]

PingEnvelope == PingTx([m_tx |-> EmptyTx])

\* set_type(MT_PING), send, Clear
sendPing(s, ok) ==
    LET s1 == [s EXCEPT !.m_tx = PingTx(s)]
    IN  ClearTx(sendHalrcmdMessage(s1, s1.m_tx, ok))

\* variant: the direction of the pin is not looked at
pinChangeAnyDirection(s, p, ok) ==
    IF s.m_connectionState # "Connected" THEN s
    ELSE LET s1 == [s EXCEPT !.m_tx = SetTx(s, p)]
         IN  ClearTx(sendHalrcmdMessage(s1, s1.m_tx, ok))

\* slot of valueChanged of a registered pin p
pinChange(s, p, ok) ==
    IF s.m_connectionState # "Connected" THEN s
    ELSE IF PinDir[p] = "In" THEN s
    ELSE LET s1 == [s EXCEPT !.m_tx = SetTx(s, p)]
         IN  ClearTx(sendHalrcmdMessage(s1, s1.m_tx, ok))

\* localPin = NoPin is the null pointer QMap::value returns on a miss
pinUpdate(s, remotePin, localPin) ==
    IF remotePin.value.field \in {"halfloat", "halbit", "hals32", "halu32"}
    THEN IF localPin = NoPin THEN NullDeref(s)
         ELSE setValue(s, localPin, remotePin.value, TRUE)
    ELSE s

\* ------------------------------------------------------------ start, stop
start(s, connectOk, sendOk) ==
    LET s1 == updateState([s EXCEPT !.m_cState = "Trying"], "Connecting")
        s2 == connectSockets(s1, connectOk)
    IN  IF connectOk THEN bind(addPins(s2), sendOk) ELSE s2

stop(s, ls) ==
    LET s1 == stopHalrcompHeartbeat(stopHalrcmdHeartbeat(s))
        s2 == removePins(disconnectSockets(s1, ls))
    IN  updateError(updateState(s2, "Disconnected"), "NoError", <<>>)

componentComplete(s, connectOk, sendOk) ==
    LET s1 == [s EXCEPT !.m_componentCompleted = TRUE]
    IN  IF s1.m_ready THEN start(s1, connectOk, sendOk) ELSE s1

setReady(s, arg, connectOk, sendOk, ls) ==
    IF s.m_ready # arg
    THEN LET s1 == [s EXCEPT !.m_ready = arg]
         IN  IF ~s1.m_componentCompleted THEN s1
             ELSE IF s1.m_ready THEN start(s1, connectOk, sendOk)
             ELSE stop(s1, ls)
    ELSE s

\* ------------------------------------------------ update socket handler
RECURSIVE IncrementalPins(_, _)
IncrementalPins(s, pins) ==
    IF pins = <<>> \/ s.crashed THEN s
    ELSE IncrementalPins(
            pinUpdate(s, Head(pins), s.m_pinsByHandle[Head(pins).handle]),
            Tail(pins))

\* the first successful update of a subscription
SubscriptionUp(s) ==
    IF s.m_sState # "Up"
    THEN updateState(updateError([s EXCEPT !.m_sState = "Up"], "NoError", <<>>),
                     "Connected")
    ELSE s

IncrementalUpdate(s, pins) ==
    LET s1 == IncrementalPins(s, pins)
    IN  IF s1.crashed THEN s1
        ELSE refreshHalrcompHeartbeat(SubscriptionUp(s1))

\* one pin sub-message of a full update; a name that is not registered
\* yields the null pointer, on which setHandle is called
FullUpdatePin(s, remotePin) ==
    LET name == StripName(remotePin.name)
        localPin == IF name \in s.m_pinsByName THEN name ELSE NoPin
    IN  IF localPin = NoPin THEN NullDeref(s)
        ELSE LET s1 == setHandle(s, localPin, remotePin.handle)
                 s2 == [s1 EXCEPT !.m_pinsByHandle[remotePin.handle] = localPin]
             IN  pinUpdate(s2, remotePin, localPin)

RECURSIVE FullUpdatePins(_, _)
FullUpdatePins(s, pins) ==
    IF pins = <<>> \/ s.crashed THEN s
    ELSE FullUpdatePins(FullUpdatePin(s, Head(pins)), Tail(pins))

RECURSIVE FullUpdateComps(_, _)
FullUpdateComps(s, comps) ==
    IF comps = <<>> \/ s.crashed THEN s
    ELSE LET s1 == FullUpdatePins(s, Head(comps).pin)
         IN  IF s1.crashed THEN s1
             ELSE FullUpdateComps(SubscriptionUp(s1), Tail(comps))

FullUpdate(s, comps, pparams) ==
    LET s1 == FullUpdateComps(s, comps)
    IN  IF s1.crashed THEN s1
        ELSE IF pparams.has_pparams
        THEN startHalrcompHeartbeat(s1, pparams.keepalive_timer)
        ELSE s1

SubscribeError(s, notes) ==
    updateState(updateError([s EXCEPT !.m_sState = "Down"],
                            "CommandError", NoteString(notes)), "Error")

\* variant: a type that is not handled is taken as an error of the server
halrcompMessageReceivedStrict(s, msg) ==
    CASE msg.type = "INCREMENTAL_UPDATE" -> IncrementalUpdate(s, msg.pin)
      [] msg.type = "FULL_UPDATE"        -> FullUpdate(s, msg.comp, msg.pparams)
      [] msg.type = "PING"               -> refreshHalrcompHeartbeat(s)
      [] msg.type = "HALRCOMMAND_ERROR"  -> SubscribeError(s, msg.note)
      [] OTHER                           -> SubscribeError(s, <<>>)

halrcompMessageReceived(s, msg) ==
    CASE msg.type = "INCREMENTAL_UPDATE" -> IncrementalUpdate(s, msg.pin)
      [] msg.type = "FULL_UPDATE"        -> FullUpdate(s, msg.comp, msg.pparams)
      [] msg.type = "PING"               -> refreshHalrcompHeartbeat(s)
      [] msg.type = "HALRCOMMAND_ERROR"  -> SubscribeError(s, msg.note)
      [] OTHER                           -> s

\* ----------------------------------------------- command socket handler
PingAcknowledge(s) ==
    LET s1 == [s EXCEPT !.m_cState = "Up", !.m_halrcmdPingOutstanding = FALSE]
    IN  IF s1.m_connectionState = "Error" /\ s1.m_error = "TimeoutError"
        THEN subscribe(updateState(updateError(s1, "NoError", <<>>), "Connected"))
        ELSE s1

\* variant: the confirmation does not subscribe
BindConfirmNoSubscribe(s) == [s EXCEPT !.m_cState = "Up"]

BindConfirm(s) == subscribe([s EXCEPT !.m_cState = "Up"])

Reject(s, type, notes) ==
    LET s1 == [s EXCEPT !.m_cState = "Down"]
        s2 == IF type = "BIND_REJECT"
              THEN updateError(s1, "BindError", NoteString(notes))
              ELSE updateError(s1, "PinChangeError", NoteString(notes))
    IN  updateState(s2, "Error")

halrcmdMessageReceived(s, msg) ==
    CASE msg.type = "PING_ACKNOWLEDGE" -> PingAcknowledge(s)
      [] msg.type = "BIND_CONFIRM"     -> BindConfirm(s)
      [] msg.type \in {"BIND_REJECT", "SET_REJECT"} -> Reject(s, msg.type, msg.note)
      [] OTHER                         -> s

\* ------------------------------------------------------------ timer ticks
CmdTimeoutString  == << "Halrcmd service timed out" >>
CompTimeoutString == << "Halrcomp service timed out" >>

\* variant: an outstanding ping is not looked at
halrcmdHeartbeatTimerTickNoTimeout(s, ok) ==
    LET s2 == sendPing(s, ok)
    IN  IF s2.crashed THEN s2
        ELSE [s2 EXCEPT !.m_halrcmdPingOutstanding = TRUE]

halrcmdHeartbeatTimerTick(s, ok) ==
    LET s1 == IF s.m_halrcmdPingOutstanding
              THEN LET u == unsubscribe([s EXCEPT !.m_cState = "Trying"])
                   IN  IF u.crashed THEN u
                       ELSE updateState(updateError(u, "TimeoutError",
                                                    CmdTimeoutString), "Error")
              ELSE s
        s2 == IF s1.crashed THEN s1 ELSE sendPing(s1, ok)
    IN  IF s2.crashed THEN s2
        ELSE [s2 EXCEPT !.m_halrcmdPingOutstanding = TRUE]

\* variant: the recovery PING is sent only when the command heartbeat is on
halrcompHeartbeatTimerTickPeriodic(s, ok) ==
    LET u  == unsubscribe([s EXCEPT !.m_cState = "Trying"])
        s1 == IF u.crashed THEN u
              ELSE updateState(updateError(u, "TimeoutError",
                                           CompTimeoutString), "Error")
        s2 == IF s1.crashed \/ s1.m_heartbeatPeriod = 0 THEN s1
              ELSE sendPing(s1, ok)
    IN  IF s2.crashed THEN s2
        ELSE [s2 EXCEPT !.m_halrcompPingOutstanding = TRUE]

halrcompHeartbeatTimerTick(s, ok) ==
    LET u  == unsubscribe([s EXCEPT !.m_cState = "Trying"])
        s1 == IF u.crashed THEN u
              ELSE updateState(updateError(u, "TimeoutError",
                                           CompTimeoutString), "Error")
        s2 == IF s1.crashed THEN s1 ELSE sendPing(s1, ok)
    IN  IF s2.crashed THEN s2
        ELSE [s2 EXCEPT !.m_halrcompPingOutstanding = TRUE]

\* ------------------------------------------------------------ environment
Lates == 0..MaxLate

NoteLists == { << "bad pin", "no perm" >> }

PparamsOpts == { [has_pparams |-> FALSE, keepalive_timer |-> 0],
                 [has_pparams |-> TRUE,  keepalive_timer |-> 0],
                 [has_pparams |-> TRUE,  keepalive_timer |-> 1000] }

\* The server of this specification numbers the pins once and for all and
\* sends each pin the value field of its type.
ServerHandle == [x |-> 1, y |-> 2, z |-> 1]

RemotePin(p) ==
    [name |-> FullName(p), handle |-> ServerHandle[p],
     value |-> [field |-> FieldOf(PinType[p]), v |-> 1]]

\* pin sub-messages of a full update: no pin, x alone, x and y, or z, which
\* the registry never holds
FullUpdatePinLists ==
    { <<>>, << RemotePin("x") >>, << RemotePin("x"), RemotePin("y") >>,
      << RemotePin("z") >> }

FullUpdateMsgs ==
    { [type |-> "FULL_UPDATE", comp |-> << [name |-> CompName, pin |-> pl] >>,
       pparams |-> pp] : pl \in FullUpdatePinLists, pp \in PparamsOpts }

\* pin sub-messages of an incremental update, addressed by handle
IncrementalPin(p) == [handle |-> ServerHandle[p], value |-> RemotePin(p).value]

IncrementalPinLists ==
    { <<>>, << IncrementalPin("x") >>, << IncrementalPin("y") >>,
      << IncrementalPin("x"), IncrementalPin("y") >> }

IncrementalUpdateMsgs ==
    { [type |-> "INCREMENTAL_UPDATE", pin |-> pl] : pl \in IncrementalPinLists }

\* The update socket delivers while it is connected and subscribed; a
\* callback queued before the socket was closed is delivered late.
CompLive == sockets = "live" /\ subscribed

TakeComp(s) == IF CompLive THEN s ELSE [s EXCEPT !.lateSub = @ - 1]

CompDeliverable == ~crashed /\ (CompLive \/ lateSub > 0)

\* The server replies to the requests it received: BIND_CONFIRM or
\* BIND_REJECT to a BIND, PING_ACKNOWLEDGE to a PING, and SET_REJECT to a SET
\* it refuses.  A reply may be delivered after the socket was closed.
ReplyDeliverable(request) == ~crashed /\ request \in pending

TakeReply(s, request) == [s EXCEPT !.pending = @ \ {request}]

\* the reply to the BIND of the running session is a rejection
TakeBindReject(s) == [TakeReply(s, "BIND") EXCEPT !.bindRejected = TRUE]

\* ---------------------------------------------------------------- actions
ComponentComplete ==
    /\ ~crashed /\ ~m_componentCompleted
    /\ \E connectOk, sendOk \in BOOLEAN :
         Commit(componentComplete(Cur, connectOk, sendOk), "componentComplete")

SetReadyTrue ==
    /\ ~crashed /\ ~m_ready
    /\ \E connectOk, sendOk \in BOOLEAN :
         Commit(setReady(Cur, TRUE, connectOk, sendOk, 0), "setReady(true)")

SetReadyFalse ==
    /\ ~crashed /\ m_ready
    /\ \E ls \in Lates :
         Commit(setReady(Cur, FALSE, TRUE, TRUE, ls), "setReady(false)")

PollError ==
    /\ ~crashed /\ sockets # "null"
    /\ Commit(pollError(Cur), "pollError")

WriteEv == [x |-> "write x", y |-> "write y", z |-> "write z", u |-> "write u"]

\* the user interface writes a named, enabled pin of the container;
\* valueChanged is connected to pinChange for the registered pins only
LocalWrite ==
    /\ ~crashed
    /\ \E p \in Pins, ok \in BOOLEAN :
         /\ PinEnabled[p] /\ PinName[p] # ""
         /\ \E val \in LocalValues(p) :
              LET s1 == setValue(Cur, p, val, FALSE)
              IN  Commit(IF p \in m_pinsByName THEN pinChange(s1, p, ok) ELSE s1,
                         WriteEv[p])

RecvIncrementalUpdate ==
    /\ CompDeliverable
    /\ \E msg \in IncrementalUpdateMsgs :
         Commit(halrcompMessageReceived(TakeComp(Cur), msg), "INCREMENTAL_UPDATE")

RecvFullUpdate ==
    /\ CompDeliverable
    /\ \E msg \in FullUpdateMsgs :
         Commit(halrcompMessageReceived(TakeComp(Cur), msg), "FULL_UPDATE")

RecvPing ==
    /\ CompDeliverable
    /\ Commit(halrcompMessageReceived(TakeComp(Cur), [type |-> "PING"]), "PING")

RecvCommandError ==
    /\ CompDeliverable
    /\ \E notes \in NoteLists :
         Commit(halrcompMessageReceived(TakeComp(Cur),
                   [type |-> "HALRCOMMAND_ERROR", note |-> notes]),
                "HALRCOMMAND_ERROR")

RecvCompUnknown ==
    /\ CompDeliverable
    /\ Commit(halrcompMessageReceived(TakeComp(Cur), [type |-> "UNKNOWN"]),
              "halrcomp unknown")

RecvPingAcknowledge ==
    /\ ReplyDeliverable("PING")
    /\ Commit(halrcmdMessageReceived(TakeReply(Cur, "PING"),
                                     [type |-> "PING_ACKNOWLEDGE"]),
              "PING_ACKNOWLEDGE")

RecvBindConfirm ==
    /\ ReplyDeliverable("BIND")
    /\ Commit(halrcmdMessageReceived(TakeReply(Cur, "BIND"),
                                     [type |-> "BIND_CONFIRM"]),
              "BIND_CONFIRM")

RecvBindReject ==
    /\ ReplyDeliverable("BIND")
    /\ \E notes \in NoteLists :
         Commit(halrcmdMessageReceived(TakeBindReject(Cur),
                   [type |-> "BIND_REJECT", note |-> notes]), "BIND_REJECT")

RecvSetReject ==
    /\ ReplyDeliverable("SET")
    /\ \E notes \in NoteLists :
         Commit(halrcmdMessageReceived(TakeReply(Cur, "SET"),
                   [type |-> "SET_REJECT", note |-> notes]), "SET_REJECT")

RecvCmdUnknown ==
    /\ ~crashed /\ sockets = "live"
    /\ Commit(halrcmdMessageReceived(Cur, [type |-> "UNKNOWN"]),
              "halrcmd unknown")

HalrcmdTick ==
    /\ ~crashed /\ cmdTimerActive
    /\ \E ok \in BOOLEAN :
         Commit(halrcmdHeartbeatTimerTick(Cur, ok), "halrcmd tick")

HalrcompTick ==
    /\ ~crashed /\ compTimerActive
    /\ \E ok \in BOOLEAN :
         Commit(halrcompHeartbeatTimerTick(Cur, ok), "halrcomp tick")

Next ==
    \/ ComponentComplete
    \/ SetReadyTrue
    \/ SetReadyFalse
    \/ PollError
    \/ LocalWrite
    \/ RecvIncrementalUpdate
    \/ RecvFullUpdate
    \/ RecvPing
    \/ RecvCommandError
    \/ RecvCompUnknown
    \/ RecvPingAcknowledge
    \/ RecvBindConfirm
    \/ RecvBindReject
    \/ RecvSetReject
    \/ RecvCmdUnknown
    \/ HalrcmdTick
    \/ HalrcompTick

Spec == Init /\ [][Next]_vars

\* ------------------------------------------------------- the happy path
\* The runs in which nothing fails: the sockets connect, the transport takes
\* every envelope, no callback is delivered late, no timer expires, no error
\* message arrives, and the server answers: BIND with BIND_CONFIRM, the
\* subscription with full updates naming every registered pin, followed by
\* incremental updates and pings.
HappyComponentComplete ==
    /\ ~crashed /\ ~m_componentCompleted
    /\ Commit(componentComplete(Cur, TRUE, TRUE), "componentComplete")

HappySetReadyTrue ==
    /\ ~crashed /\ ~m_ready
    /\ Commit(setReady(Cur, TRUE, TRUE, TRUE, 0), "setReady(true)")

HappySetReadyFalse ==
    /\ ~crashed /\ m_ready
    /\ Commit(setReady(Cur, FALSE, TRUE, TRUE, 0), "setReady(false)")

HappyLocalWrite ==
    /\ ~crashed
    /\ \E p \in Pins :
         /\ PinEnabled[p] /\ PinName[p] # ""
         /\ \E val \in LocalValues(p) :
              LET s1 == setValue(Cur, p, val, FALSE)
              IN  Commit(IF p \in m_pinsByName THEN pinChange(s1, p, TRUE) ELSE s1,
                         WriteEv[p])

HappyFullUpdateMsg(pp) ==
    [type |-> "FULL_UPDATE",
     comp |-> << [name |-> CompName,
                  pin |-> [i \in 1..Len(InOrder(m_pinsByName)) |->
                             RemotePin(InOrder(m_pinsByName)[i])]] >>,
     pparams |-> pp]

HappyFullUpdate ==
    /\ ~crashed /\ CompLive
    /\ \E pp \in PparamsOpts :
         Commit(halrcompMessageReceived(Cur, HappyFullUpdateMsg(pp)), "FULL_UPDATE")

HappyIncrementalUpdate ==
    /\ ~crashed /\ CompLive /\ m_sState = "Up"
    /\ \E msg \in IncrementalUpdateMsgs :
         Commit(halrcompMessageReceived(Cur, msg), "INCREMENTAL_UPDATE")

HappyPing ==
    /\ ~crashed /\ CompLive /\ m_sState = "Up"
    /\ Commit(halrcompMessageReceived(Cur, [type |-> "PING"]), "PING")

NextHappy ==
    \/ HappyComponentComplete
    \/ HappySetReadyTrue
    \/ HappySetReadyFalse
    \/ HappyLocalWrite
    \/ RecvBindConfirm
    \/ HappyFullUpdate
    \/ HappyIncrementalUpdate
    \/ HappyPing

\* the server answers: a request is not left unanswered for ever
SpecHappy ==
    Init /\ [][NextHappy]_vars /\ WF_vars(RecvBindConfirm) /\ WF_vars(HappyFullUpdate)

\* ------------------------------------------------ the server's messages
\* The runs of a session in which the transport does not fail and no callback
\* is late, and the server is free in what the protocol leaves to it: it
\* numbers the pins anew when it restarts (the client notices the silence as
\* a subscription timeout and recovers by PING_ACKNOWLEDGE), and the value
\* field of a pin sub-message is the one it chooses.
RestartedHandle == [x |-> 2, y |-> 3, z |-> 1]

ServerNumberings == { ServerHandle, RestartedHandle }

ValueFields == { "halfloat", "halbit" }

ServerPin(p, n, f) ==
    [name |-> FullName(p), handle |-> n[p], value |-> [field |-> f, v |-> 1]]

\* a full update naming every registered pin; fld gives the value field of
\* each pin
ServerFullUpdateMsg(n, fld, pp) ==
    [type |-> "FULL_UPDATE",
     comp |-> << [name |-> CompName,
                  pin |-> [i \in 1..Len(InOrder(m_pinsByName)) |->
                             ServerPin(InOrder(m_pinsByName)[i], n,
                                       fld[InOrder(m_pinsByName)[i]])]] >>,
     pparams |-> pp]

TypedFields == [p \in Pins |-> FieldOf(PinType[p])]

\* the value fields in which the field of exactly pin q is not the one of
\* the pin's type
MistypedFields(q) ==
    { [TypedFields EXCEPT ![q] = f] : f \in ValueFields \ {TypedFields[q]} }

ServerFullUpdate ==
    /\ ~crashed /\ CompLive
    /\ \E n \in ServerNumberings, pp \in PparamsOpts :
         Commit(halrcompMessageReceived(Cur, ServerFullUpdateMsg(n, TypedFields, pp)),
                "FULL_UPDATE")

\* an incremental update of one pin, by a handle that a full update of the
\* session has announced
ServerIncrementalUpdate ==
    /\ ~crashed /\ CompLive /\ m_sState = "Up"
    /\ \E h \in Handles :
         /\ m_pinsByHandle[h] # NoPin
         /\ LET p == m_pinsByHandle[h]
                pin == [handle |-> h, value |-> [field |-> TypedFields[p], v |-> 1]]
            IN  Commit(halrcompMessageReceived(Cur,
                          [type |-> "INCREMENTAL_UPDATE", pin |-> << pin >>]),
                       "INCREMENTAL_UPDATE")

MistypedFullUpdate ==
    /\ ~crashed /\ CompLive
    /\ \E q \in m_pinsByName, pp \in PparamsOpts :
         \E fld \in MistypedFields(q) :
            Commit(halrcompMessageReceived(Cur,
                      ServerFullUpdateMsg(ServerHandle, fld, pp)),
                   "FULL_UPDATE mistyped")

MistypedIncrementalUpdate ==
    /\ ~crashed /\ CompLive /\ m_sState = "Up"
    /\ \E h \in Handles :
         /\ m_pinsByHandle[h] # NoPin
         /\ \E fld \in MistypedFields(m_pinsByHandle[h]) :
              LET pin == [handle |-> h,
                          value |-> [field |-> fld[m_pinsByHandle[h]], v |-> 1]]
              IN  Commit(halrcompMessageReceived(Cur,
                            [type |-> "INCREMENTAL_UPDATE", pin |-> << pin >>]),
                         "INCREMENTAL_UPDATE mistyped")

\* the subscription timer expires and the transport takes the recovery PING
ServerSilent ==
    /\ ~crashed /\ compTimerActive
    /\ Commit(halrcompHeartbeatTimerTick(Cur, TRUE), "halrcomp tick")

NextServer ==
    \/ HappyComponentComplete
    \/ HappySetReadyTrue
    \/ HappySetReadyFalse
    \/ HappyLocalWrite
    \/ RecvBindConfirm
    \/ RecvPingAcknowledge
    \/ ServerSilent
    \/ ServerFullUpdate
    \/ ServerIncrementalUpdate
    \/ MistypedFullUpdate
    \/ MistypedIncrementalUpdate

SpecServer == Init /\ [][NextServer]_vars

\* ------------------------------------------------------ state predicates
Connected  == m_connectionState = "Connected"
Connecting == m_connectionState = "Connecting"
InError    == m_connectionState = "Error"

SentTypes == { last.sent[i].type : i \in 1..Len(last.sent) }

\* ================================================================ claims

\* C1: whenever connectionState is not Connected, every pin in the registry
\* has synced = false.  The code unsyncs only on leaving Connected: an update
\* applied in Error (subscription sub-state still Up) syncs a pin again, and
\* a pin synced in one session is registered still synced in the next.
C1_UnsyncedUnlessConnected ==
    ~Connected => \A p \in m_pinsByName : ~pinSynced[p]

\* C2: after ready is set to false, every pin of the ended session has
\* synced = false.  stop() empties the registry before updateState runs
\* unsyncPins, which then finds no pin.
C2_UnsyncedAfterStop ==
    last.ev = "setReady(false)" => \A p \in Pins : ~pinSynced[p]

\* C3: a SET envelope is emitted only by a step taken in Connected, and only
\* for a pin whose direction is not In.
C3_Step ==
    \A i \in 1..Len(last'.sent) :
        last'.sent[i].type = "SET" =>
            /\ Connected
            /\ \A j \in 1..Len(last'.sent[i].pin) :
                 PinDir[StripName(last'.sent[i].pin[j].name)] # "In"

C4_QuietAfterStop ==
    ~m_ready =>
        /\ m_connectionState = "Disconnected" /\ m_error = "NoError"
        /\ ~cmdTimerActive /\ ~compTimerActive
        /\ last.sent = <<>>

\* C5: from Error with kind Bind, PinChange, Command or Socket no single
\* event leads to Connected, and none replaces the error by Timeout, the one
\* kind that recovers without a ready cycle.
NoRecoveryErrors == {"BindError", "PinChangeError", "CommandError", "SocketError"}

C5_Step ==
    (InError /\ m_error \in NoRecoveryErrors) =>
        /\ m_connectionState' # "Connected"
        /\ (m_connectionState' = "Error" => m_error' # "TimeoutError")

C5_NoSilentRecovery == [][C5_Step]_vars

\* C6: subscription-timeout recovery in a running session.  A tick of the
\* subscription heartbeat timer taken in Connected ends in Error with the
\* subscription dropped, and, whenever the transport takes the envelope,
\* with error Timeout and exactly one PING sent, whatever the heartbeat
\* period is; the tick sends nothing only when the send itself throws, which
\* is reported as a socket error.  A PING_ACKNOWLEDGE received in
\* Error(Timeout) clears the error, returns to Connected and subscribes again.
C6_TickStep ==
    (last'.ev = "halrcomp tick" /\ Connected /\ m_ready) =>
        /\ m_connectionState' = "Error"
        /\ ~subscribed' /\ m_sState' = "Down"
        /\ \/ m_error' = "TimeoutError" /\ last'.sent = << PingEnvelope >>
           \/ m_error' = "SocketError" /\ last'.sent = <<>>

C6_AckStep ==
    (last'.ev = "PING_ACKNOWLEDGE" /\ InError /\ m_error = "TimeoutError") =>
        /\ m_connectionState' = "Connected"
        /\ m_error' = "NoError" /\ m_errorString' = <<>>
        /\ subscribed' /\ m_sState' = "Trying"

C6_TimeoutRecovery == [][C6_TickStep /\ C6_AckStep]_vars

\* C6 witness: with heartbeat period 0 the subscription timer has ticked
\* (its outstanding flag is set), and the acknowledgment of its PING has
\* brought the client back to Connected with a new subscription
C6_Witness ==
    /\ m_heartbeatPeriod = 0 /\ last.ev = "PING_ACKNOWLEDGE"
    /\ Connected /\ m_error = "NoError" /\ subscribed /\ m_sState = "Trying"
    /\ m_halrcompPingOutstanding /\ m_ready

\* C7: in Error(Timeout) with a positive heartbeat period the client keeps
\* pinging, so a timer that sends the next PING is running.  updateState
\* stops both timers on entering Error: the PING of the tick that raised
\* the timeout is the last one.
C7_KeepsPinging ==
    (m_ready /\ InError /\ m_error = "TimeoutError" /\ m_heartbeatPeriod > 0) =>
        (cmdTimerActive \/ compTimerActive)

\* C8 as stated: with heartbeat period 0 the command heartbeat timer never
\* runs and no PING is ever sent.
C8_NoPingAtAll ==
    m_heartbeatPeriod = 0 => (~cmdTimerActive /\ "PING" \notin SentTypes)

\* C8 amended: with heartbeat period 0 the command heartbeat timer never
\* runs, and the only PING sent is the recovery PING of a tick of the
\* subscription heartbeat timer.
C8_OnlyRecoveryPing ==
    m_heartbeatPeriod = 0 =>
        /\ ~cmdTimerActive
        /\ ("PING" \in SentTypes => last.ev = "halrcomp tick")

\* C8 witness: with heartbeat period 0 the subscription timer ticked and
\* its recovery PING went out
C8_Witness ==
    /\ m_heartbeatPeriod = 0 /\ last.ev = "halrcomp tick"
    /\ last.sent = << PingEnvelope >> /\ ~cmdTimerActive
    /\ InError /\ m_error = "TimeoutError"

\* C9: a FULL_UPDATE handled in Connecting ends in Connected, in every
\* session.  The subscription sub-state is not reset by stop() or start():
\* a session that follows one whose subscription was Up handles a
\* FULL_UPDATE that precedes BIND_CONFIRM without leaving Connecting.
C9_Step ==
    (last'.ev = "FULL_UPDATE" /\ Connecting /\ ~crashed') =>
        m_connectionState' = "Connected"

C9_FullUpdateConnects == [][C9_Step]_vars

\* C10: the happy path.  The step of a rising edge of ready sends exactly
\* the BIND of the registered pins; a subscription is only ever issued by
\* the step that handles BIND_CONFIRM; and once the BIND is out, the client
\* reaches Connected without error, every registered pin synced and carrying
\* the handle of the full update, unless ready is taken back first.
C10_Started ==
    /\ last.ev \in {"setReady(true)", "componentComplete"}
    /\ m_ready /\ m_componentCompleted

C10_Step ==
    /\ C10_Started' =>
          /\ last'.sent = << BindEnvelope(Cur) >>'
          /\ m_pinsByName' = {"x", "y"}
          /\ ~subscribed'
    /\ (~subscribed /\ subscribed') => last'.ev = "BIND_CONFIRM"

C10_BindOut == C10_Started /\ Connecting /\ "BIND" \in pending

C10_Seeded ==
    /\ Connected /\ m_error = "NoError"
    /\ \A p \in m_pinsByName : pinSynced[p] /\ pinHandle[p] = ServerHandle[p]

C10_HappyPath ==
    /\ [][C10_Step]_vars
    /\ (C10_BindOut ~> (C10_Seeded \/ ~m_ready))

\* C10 witness: a session has been seeded by its full update
C10_Witness ==
    /\ last.ev = "FULL_UPDATE" /\ C10_Seeded /\ m_ready
    /\ m_pinsByName = {"x", "y"} /\ m_sState = "Up" /\ m_cState = "Up"

\* C11: a BIND_REJECT is handled into Error with error Bind and the notes of
\* the envelope, each followed by a newline, as error string; and from then
\* to the end of the session the update socket holds no subscription.  An
\* update callback left over from the previous session returns the client
\* to Connected, from where a command timeout and its acknowledgment
\* subscribe.
C11_RejectStep ==
    last'.ev = "BIND_REJECT" =>
        /\ m_connectionState' = "Error" /\ m_error' = "BindError"
        /\ m_errorString' = << "bad pin", "\n", "no perm", "\n" >>
        /\ subscribed' = subscribed

C11_NoSubscribeStep == (bindRejected /\ bindRejected' /\ ~subscribed) => ~subscribed'

C11_BindReject == [][C11_RejectStep /\ C11_NoSubscribeStep]_vars

\* C12: the step of a falling edge of ready ends Disconnected with no error
\* and an empty error string, both timers stopped, the sockets closed and
\* both indexes of the registry empty, whatever the state before was; the
\* step of the following rising edge that gets through to Connecting sends
\* exactly one BIND, built from the pins registered by that step and their
\* values of that moment, and sends nothing when the sockets fail.
C12_StopStep ==
    last'.ev = "setReady(false)" =>
        /\ m_connectionState' = "Disconnected"
        /\ m_error' = "NoError" /\ m_errorString' = <<>>
        /\ ~cmdTimerActive' /\ ~compTimerActive'
        /\ sockets' = "null" /\ ~subscribed'
        /\ m_pinsByName' = {}
        /\ \A h \in Handles : m_pinsByHandle'[h] = NoPin

C12_StartStep ==
    (last'.ev = "setReady(true)" /\ m_componentCompleted) =>
        /\ m_connectionState' \in {"Connecting", "Error"}
        /\ m_connectionState' = "Connecting" =>
              /\ last'.sent = << BindEnvelope(Cur) >>'
              /\ m_pinsByName' = {"x", "y"}
        /\ m_connectionState' = "Error" =>
              /\ last'.sent = <<>> /\ m_error' = "SocketError"

C12_StopThenFreshBind == [][C12_StopStep /\ C12_StartStep]_vars

\* C12 witness: a session that follows one whose subscription was Up has
\* sent its BIND, carrying the value written to x in the meantime
C12_Witness ==
    /\ last.ev = "setReady(true)" /\ Connecting /\ m_sState = "Up"
    /\ last.sent = << BindEnvelope(Cur) >>
    /\ pinValue["x"].v = 1 /\ last.sent[1].comp[1].pin[1].value.v = 1
    /\ \A h \in Handles : m_pinsByHandle[h] = NoPin

\* C13: a write of the Out pin x handled in Connected, whose envelope the
\* transport takes, sends exactly one SET with one pin sub-message: the
\* value written in the field of the pin's type, the qualified name, and a
\* handle the server has assigned to x, that is, one the handle index of the
\* session maps to x.  pinChange sends whatever handle the pin object holds:
\* none when Connected was entered by an update that did not name x.
C13_Step ==
    (last'.ev = "write x" /\ Connected /\ "x" \in m_pinsByName
       /\ m_connectionState' = "Connected") =>
        /\ Len(last'.sent) = 1
        /\ last'.sent[1].type = "SET"
        /\ Len(last'.sent[1].pin) = 1
        /\ last'.sent[1].pin[1].name = FullName("x")
        /\ last'.sent[1].pin[1].value \in LocalValues("x")
        /\ last'.sent[1].pin[1].value = pinValue'["x"]
        /\ last'.sent[1].pin[1].handle \in Handles
        /\ m_pinsByHandle'[last'.sent[1].pin[1].handle] = "x"

C13_SetCarriesAssignedHandle == [][C13_Step]_vars

\* C14: a FULL_UPDATE handled by a running session does not bring the
\* client down, and every registered pin it syncs holds the value and the
\* handle of its sub-message and is what the handle index returns for that
\* handle.  A sub-message whose name is not in the registry makes
\* m_pinsByName.value() return a null pointer, on which setHandle is called.
C14_Step ==
    (last'.ev = "FULL_UPDATE" /\ m_ready /\ sockets = "live") =>
        /\ ~crashed'
        /\ \A p \in m_pinsByName :
             (pinSynced'[p] /\ ~pinSynced[p]) =>
                 /\ pinValue'[p] = RemotePin(p).value
                 /\ pinHandle'[p] = ServerHandle[p]
                 /\ m_pinsByHandle'[ServerHandle[p]] = p

C14_FullUpdateApplied == [][C14_Step]_vars

\* C15: every BIND sent holds exactly one component, named after the
\* component, with one pin sub-message for each enabled pin with a name, x
\* and y, and none for the disabled z and the unnamed u; each sub-message
\* holds the qualified name, the type, the direction and the value the pin
\* has at that moment in the field of its type, and no handle; nothing of an
\* earlier envelope is in it.
C15_BindPin(p) ==
    [name  |-> << CompName, PinName[p] >>,
     type  |-> PinType[p],
     dir   |-> PinDir[p],
     value |-> [field |-> FieldOf(PinType[p]), v |-> pinValue[p].v]]

C15_Bind ==
    [type |-> "BIND",
     comp |-> << [name |-> CompName,
                  pin  |-> << C15_BindPin("x"), C15_BindPin("y") >>] >>,
     pin  |-> <<>>]

C15_Step ==
    \A i \in 1..Len(last'.sent) :
        last'.sent[i].type = "BIND" =>
            /\ last'.sent[i] = C15_Bind'
            /\ \A j \in 1..2 :
                 DOMAIN last'.sent[i].comp[1].pin[j] = {"name", "type", "dir", "value"}

C15_BindEnumeratesPins == [][C15_Step]_vars

\* C15 witness: the BIND of a later session, sent after a SET of the
\* session before it, with the value written to x
C15_Witness ==
    /\ last.sent = << C15_Bind >> /\ pinValue["x"].v = 1
    /\ pinHandle["x"] # NoHandle /\ "SET" \notin pending
    /\ PinEnabled["u"] /\ ~PinEnabled["z"] /\ m_pinsByName = {"x", "y"}

\* C16: after every handled event the connection state is Error exactly when
\* the error kind is not NoError.
C16_ErrorAgreesWithState ==
    ~crashed => ((m_connectionState = "Error") <=> (m_error # "NoError"))

\* C18: an INCREMENTAL_UPDATE handled by a running session whose pin
\* sub-messages name a handle that is not in the handle index does not bring
\* the client down, and a pin that no handle of the index leads to keeps its
\* value and its synced flag.  m_pinsByHandle.value() returns a null pointer
\* on a miss, and pinUpdate calls setValue on it.
C18_Indexed(p) == \E h \in Handles : m_pinsByHandle[h] = p

C18_Step ==
    (last'.ev = "INCREMENTAL_UPDATE" /\ m_ready /\ sockets = "live") =>
        /\ ~crashed'
        /\ \A p \in Pins :
             ~C18_Indexed(p) =>
                 pinValue'[p] = pinValue[p] /\ pinSynced'[p] = pinSynced[p]

C18_UnknownHandleIgnored == [][C18_Step]_vars

\* C17: after a FULL_UPDATE every handle of the handle index leads to a pin
\* that has this handle, so that no handle of an earlier FULL_UPDATE is left
\* in the index, and a FULL_UPDATE handled in Connected leaves the client
\* Connected.  The code inserts into m_pinsByHandle and removes nothing: when
\* the server has numbered the pins anew, the old handles stay in the index.
C17_Step ==
    last'.ev = "FULL_UPDATE" =>
        /\ \A h \in Handles :
             m_pinsByHandle'[h] # NoPin => pinHandle'[m_pinsByHandle'[h]] = h
        /\ Connected => Connected'

C17_HandleIndexReplaced == [][C17_Step]_vars

\* C19: an update whose pin sub-message holds a value field of another type
\* than the pin's leaves no pin with a value of another type than its own,
\* and an error is reported.  pinUpdate stores the field the message has.
C19_Step ==
    last'.ev \in {"FULL_UPDATE mistyped", "INCREMENTAL_UPDATE mistyped"} =>
        /\ \A p \in Pins : pinValue'[p].field = FieldOf(PinType[p])
        /\ m_error' # "NoError"

C19_MismatchReported == [][C19_Step]_vars

\* C20: the command heartbeat of a running session with a positive period.
\* A tick taken in Connected with no ping outstanding sends exactly one PING,
\* sets outstanding and leaves the client Connected; a tick taken with a ping
\* outstanding ends in Error with error Timeout, the subscription dropped and
\* the command sub-state Trying; the transport throwing on the send of the
\* PING is the one other outcome of a tick, reported as a socket error.  A
\* PING_ACKNOWLEDGE clears outstanding, and no other step than a tick with a
\* ping outstanding reports the timeout of the command service.
C20_CmdTick ==
    last'.ev = "halrcmd tick" /\ Connected /\ m_ready /\ m_heartbeatPeriod > 0

C20_SendFailed ==
    /\ last'.sent = <<>>
    /\ m_connectionState' = "Error" /\ m_error' = "SocketError"

C20_TickStep ==
    (C20_CmdTick /\ ~m_halrcmdPingOutstanding) =>
        /\ m_halrcmdPingOutstanding'
        /\ \/ /\ last'.sent = << PingEnvelope >>
              /\ Connected' /\ m_error' = "NoError"
              /\ cmdTimerActive' /\ subscribed' = subscribed
           \/ C20_SendFailed

C20_TimeoutStep ==
    (C20_CmdTick /\ m_halrcmdPingOutstanding) =>
        /\ m_halrcmdPingOutstanding'
        /\ m_connectionState' = "Error"
        /\ ~subscribed' /\ m_cState' = "Trying"
        /\ \/ /\ last'.sent = << PingEnvelope >>
              /\ m_error' = "TimeoutError" /\ m_errorString' = CmdTimeoutString
           \/ C20_SendFailed

C20_AckStep ==
    last'.ev = "PING_ACKNOWLEDGE" => ~m_halrcmdPingOutstanding'

C20_OnlyThen ==
    (m_errorString' = CmdTimeoutString /\ m_errorString # CmdTimeoutString) =>
        last'.ev = "halrcmd tick" /\ m_halrcmdPingOutstanding

C20_CommandHeartbeat ==
    [][C20_TickStep /\ C20_TimeoutStep /\ C20_AckStep /\ C20_OnlyThen]_vars

\* C20 witness: a tick of the command heartbeat has found the ping of the
\* tick before it outstanding and has raised the timeout
C20_Witness ==
    /\ last.ev = "halrcmd tick" /\ last.sent = << PingEnvelope >>
    /\ m_ready /\ m_heartbeatPeriod > 0
    /\ InError /\ m_error = "TimeoutError" /\ m_errorString = CmdTimeoutString
    /\ ~subscribed /\ m_cState = "Trying" /\ m_halrcmdPingOutstanding

\* C21: in a running session a step from Connecting to Connected is the
\* handling of a FULL_UPDATE, after which every registered pin has a handle
\* and is synced; an INCREMENTAL_UPDATE or a PING handled in Connecting
\* leaves the client Connecting.  The INCREMENTAL_UPDATE branch enters
\* Connected as well whenever m_sState is not Up.
C21_Step ==
    (m_ready /\ sockets = "live" /\ subscribed /\ Connecting) =>
        /\ last'.ev \in {"INCREMENTAL_UPDATE", "PING"} => Connecting'
        /\ Connected' =>
              /\ last'.ev = "FULL_UPDATE"
              /\ \A p \in m_pinsByName' :
                   pinHandle'[p] # NoHandle /\ pinSynced'[p]

C21_OnlyFullUpdateConnects == [][C21_Step]_vars

\* C22: the handling of an envelope of a type that neither handler knows,
\* on the update socket or on the command socket, in whatever state, leaves
\* the connection state, the error and its string, both sub-states, both
\* outstanding flags, both timers, the sockets and the subscription, both
\* indexes of the registry and the value, synced flag and handle of every
\* pin as they were, and sends nothing.
C22_Step ==
    last'.ev \in {"halrcomp unknown", "halrcmd unknown"} =>
        /\ last'.sent = <<>>
        /\ ~crashed'
        /\ UNCHANGED << m_ready, m_componentCompleted, m_heartbeatPeriod,
                        m_connectionState, m_error, m_errorString,
                        m_sState, m_cState, cmdTimerActive, compTimerActive,
                        m_halrcmdPingOutstanding, m_halrcompPingOutstanding,
                        sockets, subscribed, m_pinsByName, m_pinsByHandle,
                        m_tx, pinValue, pinSynced, pinHandle >>

C22_UnknownDiscarded == [][C22_Step]_vars

\* C22 witness: an envelope of an unknown type was handled on the update
\* socket in Connected, with the subscription timer running and pin x synced
C22_Witness ==
    /\ last.ev = "halrcomp unknown" /\ last.sent = <<>>
    /\ Connected /\ m_ready /\ sockets = "live" /\ subscribed
    /\ compTimerActive /\ pinSynced["x"] /\ pinHandle["x"] # NoHandle

\* C23: whenever the connection state of a running session is not Connected,
\* neither the command heartbeat timer nor the subscription heartbeat timer
\* is running.  updateState stops both timers on a change to a state other
\* than Connected, but the FULL_UPDATE branch calls startHalrcompHeartbeat
\* for the pparams of the message whatever the connection state is.
C23_NoTimerUnlessConnected ==
    (m_ready /\ sockets = "live" /\ ~Connected) =>
        (~cmdTimerActive /\ ~compTimerActive)

====
